---- MODULE Spec2Model ----
(***************************************************************************)
(* Model of src/services/youtubeService.ts: the credential pool, the      *)
(* rotation cursor, the quota counters and the Router call                *)
(* fetchYouTubeAPI, with its suspension points (await fetch, await        *)
(* response.json()) as the places where other calls and setApiKeys may    *)
(* interleave.  Indices are 0-based as in the source; apiKeys[k + 1] is   *)
(* the source's apiKeys[k].                                                *)
(***************************************************************************)
EXTENDS Integers, Sequences, FiniteSets, TLC

\* the service: its pool, cursor, session total and registered quota
\* observer; what each observer was last handed (quotaSeen); the list last
\* handed to setApiKeys (lastKeys); the activations of fetchYouTubeAPI
\* (calls) and the number of operations started so far (ops)
VARIABLES apiKeys, currentKeyIndex, sessionQuotaUsed, onQuotaChangeCallback,
          quotaSeen, lastKeys, calls, ops

serviceVars == <<apiKeys, currentKeyIndex, sessionQuotaUsed, onQuotaChangeCallback,
                 quotaSeen, lastKeys, calls, ops>>

\* the application: its list of keys (appKeys, the apiKeys state of App),
\* validatingKeysRef, the number of validateYouTubeApiKey calls in flight
\* for each key value (probes), and whether a render is due whose effects
\* have not run yet
VARIABLES appKeys, validatingKeys, probes, effectDue

appVars == <<appKeys, validatingKeys, probes, effectDue>>

\* one call of validateYouTubeApiKey taken on its own: its argument, what
\* its request produces, whether it issued the request, and its result
VARIABLES probe

probeVars == <<probe>>

\* the channel operation in progress (getChannelStats, getChannelStatsBatch)
VARIABLES task

taskVars == <<task>>

\* the writes of a key's usage to the remote store that updateKeyUsage has
\* started, in the order they were started, each pending or settled
VARIABLES writes

storeVars == <<writes>>

vars == <<serviceVars, appVars, probeVars, taskVars, storeVars>>

----------------------------------------------------------------------------
(* Bounds of the model *)

\* longest credential list handed to setApiKeys
MaxKeys == 2
\* total number of operations (fetchYouTubeAPI calls and later setApiKeys
\* calls) started in one behaviour
MaxOps == 2
\* number of quota observers that may register one after the other
MaxObservers == 2
\* longest key string handed to validateYouTubeApiKey on its own
MaxKeyLen == 2
\* longest key list saved in the settings of the application
MaxAppKeys == 2
\* number of user actions (key-list saves, 'revalidate all') in one behaviour
MaxUserActions == 2
\* longest list of channel IDs handed to getChannelStatsBatch
MaxIds == 120
\* largest number of entries of a playlist page
MaxPage == 3

----------------------------------------------------------------------------
(* Program constants and types *)

\* the fixed per-credential daily cap of the skip policy
DailyCap == 10000

\* KeyStatus
KeyStatus == {"valid", "invalid", "checking", "quota_exceeded", "unknown"}

\* an absent optional field (dailyUsage?: number)
Undefined == -1

\* QUOTA_COSTS[endpoint] || 1
QUOTA_COSTS(endpoint) ==
    CASE endpoint = "channels" -> 1
      [] endpoint = "playlistItems" -> 1
      [] endpoint = "videos" -> 1
      [] endpoint = "search" -> 100
      [] endpoint = "i18nLanguages" -> 1
      [] OTHER -> 1

\* x ?? y
Coalesce(x, y) == IF x = Undefined THEN y ELSE x

\* x || 0 on an optional number
OrZero(x) == IF x = Undefined THEN 0 ELSE x

----------------------------------------------------------------------------
(* Inputs the environment may supply *)

\* credential values, opaque secrets; no value occurs twice in a list
KeyNames == <<"A", "B", "C", "D">>
Values == {KeyNames[x] : x \in 1..MaxKeys}

\* the (status, dailyUsage) combinations of the keys loaded at startup
KeyShapes ==
    { <<"valid", Undefined>>, <<"unknown", 10000>>, <<"checking", 9950>>,
      <<"invalid", Undefined>>, <<"quota_exceeded", 0>> }

MkKey(v, shape) == [value |-> v, status |-> shape[1], dailyUsage |-> shape[2]]

\* the (status, dailyUsage) combinations of the keys of a later list: a key
\* saved in the settings (no dailyUsage), and a key carrying a dailyUsage
SavedShapes == { <<"unknown", Undefined>>, <<"invalid", 0>> }

\* the lists of at most MaxKeys keys with distinct values and given shapes
ListsOf(shapes) ==
    UNION { { ks \in [1..n -> {MkKey(v, sh) : v \in Values, sh \in shapes}] :
                \A x, y \in 1..n : x # y => ks[x].value # ks[y].value }
            : n \in 0..MaxKeys }

\* the lists loaded at startup (the values are interchangeable, so they are
\* taken in the order of KeyNames)
LoadedLists == { ks \in ListsOf(KeyShapes) : \A x \in 1..Len(ks) : ks[x].value = KeyNames[x] }

\* the position of a value in KeyNames
Rank(v) == CHOOSE x \in 1..Len(KeyNames) : KeyNames[x] = v

\* the values of a list follow the order of KeyNames, or the reverse order
InOrder(ks) ==
    \/ \A x, y \in 1..Len(ks) : x < y => Rank(ks[x].value) < Rank(ks[y].value)
    \/ \A x, y \in 1..Len(ks) : x < y => Rank(ks[x].value) > Rank(ks[y].value)

\* the lists handed to setApiKeys afterwards: every key of a list has the
\* same shape, and the list keeps, drops, adds or turns round the keys
KeyLists == { ks \in UNION { ListsOf({sh}) : sh \in SavedShapes } : InOrder(ks) }

\* endpoint names passed to fetchYouTubeAPI ("captions" is not in QUOTA_COSTS)
Endpoints == {"channels", "search", "captions"}

\* what fetch() can produce for one attempt: a rejected promise (transport
\* failure) or a response with a status and the reason and message of its body
Responses ==
    { [transport |-> TRUE,  ok |-> FALSE, status |-> 0,   reason |-> "", message |-> "Failed to fetch"],
      [transport |-> FALSE, ok |-> TRUE,  status |-> 200, reason |-> "", message |-> ""],
      [transport |-> FALSE, ok |-> FALSE, status |-> 403, reason |-> "forbidden", message |-> ""],
      [transport |-> FALSE, ok |-> FALSE, status |-> 429, reason |-> "", message |-> ""],
      [transport |-> FALSE, ok |-> FALSE, status |-> 400, reason |-> "quotaExceeded", message |-> "quota exceeded"],
      [transport |-> FALSE, ok |-> FALSE, status |-> 400, reason |-> "dailyLimitExceeded", message |-> "daily limit exceeded"],
      [transport |-> FALSE, ok |-> FALSE, status |-> 400, reason |-> "badRequest", message |-> "bad request"] }

\* no response received yet
Pending == [transport |-> FALSE, ok |-> FALSE, status |-> -1, reason |-> "", message |-> ""]

\* `API Request failed with status ${response.status}`
StatusMessage(status) ==
    CASE status = 403 -> "API Request failed with status 403"
      [] status = 429 -> "API Request failed with status 429"
      [] status = 400 -> "API Request failed with status 400"
      [] OTHER -> "API Request failed with status"

\* the message of the exception a failing response.json() raises
ParseError == "Unexpected end of JSON input"

NoError == "null"

\* the activations of fetchYouTubeAPI that may be in flight together
Calls == {1, 2}

----------------------------------------------------------------------------
(* Pure helpers of the service *)

RECURSIVE SumUsage(_)
SumUsage(keys) ==
    IF keys = <<>> THEN 0
    ELSE OrZero(keys[1].dailyUsage) + SumUsage(Tail(keys))

\* a daily total that counts the valid keys only
getTotalDailyUsage_ValidOnly(keys) ==
    SumUsage(SelectSeq(keys, LAMBDA k : k.status = "valid"))

\* getTotalDailyUsage over a pool
getTotalDailyUsage(keys) == SumUsage(keys)

\* apiKeys.find(k => k.value === v): the first match, or Undefined
FindIndex(keys, v) ==
    IF \E x \in 1..Len(keys) : keys[x].value = v
    THEN CHOOSE x \in 1..Len(keys) :
            keys[x].value = v /\ \A y \in 1..(x - 1) : keys[y].value # v
    ELSE 0

\* a merge that forgets the usage of the key it replaces
MergeKey_Reset(old, newKey) ==
    [newKey EXCEPT !.dailyUsage = Coalesce(newKey.dailyUsage, 0)]

\* the body of keys.map(...) in setApiKeys for one new key
MergeKey(old, newKey) ==
    LET x == FindIndex(old, newKey.value) IN
    IF x # 0
    THEN [newKey EXCEPT !.dailyUsage = Coalesce(newKey.dailyUsage, Coalesce(old[x].dailyUsage, 0))]
    ELSE [newKey EXCEPT !.dailyUsage = Coalesce(newKey.dailyUsage, 0)]

\* a skip test that forgets the daily cap
SkipKey_StatusOnly(k, cost, n) ==
    n > 1 /\ (k.status = "invalid" \/ k.status = "quota_exceeded")

\* a skip test that forgets the exemption of a lone credential
SkipKey_LoneKeyToo(k, cost, n) ==
    \/ k.status = "invalid" \/ k.status = "quota_exceeded"
    \/ OrZero(k.dailyUsage) + cost > DailyCap

\* the skip test of the scan loop for one credential in a pool of n
SkipKey(k, cost, n) ==
    \/ n > 1 /\ (k.status = "invalid" \/ k.status = "quota_exceeded")
    \/ OrZero(k.dailyUsage) + cost > DailyCap /\ n > 1

\* a scan that clamps at the end of the pool instead of wrapping around
KeyIndexAt_Clamped(startIndex, i, n) == IF startIndex + i >= n THEN n - 1 ELSE startIndex + i

\* keyIndex = (startIndex + i) % apiKeys.length
KeyIndexAt(startIndex, i, n) == (startIndex + i) % n

\* the loop from iteration i on, up to its first suspension: the first
\* iteration j >= i whose credential is not skipped, or Len(keys) or more
\* when the loop condition i < apiKeys.length fails first
RECURSIVE NextAttempt(_, _, _, _)
NextAttempt(keys, startIndex, i, cost) ==
    IF i >= Len(keys) THEN i
    ELSE IF SkipKey(keys[KeyIndexAt(startIndex, i, Len(keys)) + 1], cost, Len(keys))
         THEN NextAttempt(keys, startIndex, i + 1, cost)
         ELSE i

\* the test "it's a key-related error, try next key"
IsKeyRelated(reason, status) ==
    reason = "quotaExceeded" \/ reason = "dailyLimitExceeded" \/ status = 403 \/ status = 429

\* errorData.error?.message || `API Request failed with status ...`
ErrorMessage(resp) == IF resp.message # "" THEN resp.message ELSE StatusMessage(resp.status)

\* an aggregate error that drops the last error
AggregateError_NoDetail(lastError) == [kind |-> "aggregate", message |-> "Check connection."]

\* the error thrown after the loop
AggregateError(lastError) ==
    [kind |-> "aggregate",
     message |-> IF lastError = NoError THEN "Check connection." ELSE lastError]

\* an empty pool that falls through the loop to the throw after it
ConfigError_FallThrough == [kind |-> "aggregate", message |-> "Check connection."]

ConfigError == [kind |-> "config", message |-> "Please configure at least one YouTube Data API key in Settings."]

NoResult == [kind |-> "none", message |-> ""]

\* supabase.from('api_keys').update({ daily_usage: newUsage, ... })
\*         .eq('key_value', keyObj.value), started and not awaited (call
\* and cost record the activation that started it and what it charged)
StoreWrite(call, value, usage, cost) ==
    [call |-> call, value |-> value, usage |-> usage, cost |-> cost, state |-> "pending"]

\* how a write settles: stored, resolved with an error, or rejected
WriteOutcomes == {"stored", "error", "rejected"}

\* the synchronous body of updateKeyUsage: the pool, the session total and
\* the pair handed to the quota observer
UpdatedKeys(keys, keyIndex, cost) ==
    IF keyIndex < Len(keys)
    THEN [keys EXCEPT ![keyIndex + 1].dailyUsage = OrZero(@) + cost]
    ELSE keys

UpdatedSession(keys, keyIndex, cost, session) ==
    IF keyIndex < Len(keys) THEN session + cost ELSE session

----------------------------------------------------------------------------
(* Key validation: validateYouTubeApiKey and the key list of the application *)

\* key values as the application holds them: strings, as sequences of
\* characters
ProbeKeys == { <<" ", "\t">>, <<"a">>, <<"b", " ">> }

\* characters that String.prototype.trim removes
Whitespace == {" ", "\t", "\n"}

RECURSIVE TrimStart(_)
TrimStart(str) ==
    IF str # <<>> /\ Head(str) \in Whitespace THEN TrimStart(Tail(str)) ELSE str

RECURSIVE TrimEnd(_)
TrimEnd(str) ==
    IF str # <<>> /\ str[Len(str)] \in Whitespace
    THEN TrimEnd(SubSeq(str, 1, Len(str) - 1)) ELSE str

\* key.trim()
Trim(str) == TrimEnd(TrimStart(str))

\* a test that forgets to trim
IsBlank_EmptyOnly(key) == key = <<>>

\* !key || key.trim() === ''
IsBlank(key) == key = <<>> \/ Trim(key) = <<>>

\* what fetch() and the reading of the body can produce for a probe: one of
\* Responses with its body read, or a non-ok response whose body is not JSON
ProbeResponses ==
    { [resp |-> r, readable |-> TRUE] : r \in Responses } \cup
    { [resp |-> [transport |-> FALSE, ok |-> FALSE, status |-> 502, reason |-> "", message |-> ""],
       readable |-> FALSE] }

\* an absent error field
NoErrorField == "undefined"

\* a validation that takes 403 and 429 for quota exhaustion, as the Router does
validateYouTubeApiKey_AsRouter(key, pr) ==
    IF IsBlank(key) THEN [status |-> "invalid", error |-> "Key cannot be empty."]
    ELSE IF pr.resp.transport THEN [status |-> "invalid", error |-> pr.resp.message]
    ELSE IF pr.resp.ok THEN [status |-> "valid", error |-> NoErrorField]
    ELSE IF ~pr.readable THEN [status |-> "invalid", error |-> ParseError]
    ELSE IF IsKeyRelated(pr.resp.reason, pr.resp.status)
         THEN [status |-> "quota_exceeded", error |-> "Quota Exceeded"]
    ELSE [status |-> "invalid",
          error |-> IF pr.resp.message # "" THEN pr.resp.message ELSE "Invalid key"]

\* validateYouTubeApiKey(key), given what its request produces (if it is
\* issued)
validateYouTubeApiKey(key, pr) ==
    IF IsBlank(key) THEN [status |-> "invalid", error |-> "Key cannot be empty."]
    ELSE IF pr.resp.transport THEN [status |-> "invalid", error |-> pr.resp.message]
    ELSE IF pr.resp.ok THEN [status |-> "valid", error |-> NoErrorField]
    ELSE IF ~pr.readable THEN [status |-> "invalid", error |-> ParseError]
    ELSE IF pr.resp.reason \in {"quotaExceeded", "dailyLimitExceeded"}
         THEN [status |-> "quota_exceeded", error |-> "Quota Exceeded"]
    ELSE [status |-> "invalid",
          error |-> IF pr.resp.message # "" THEN pr.resp.message ELSE "Invalid key"]

\* { value: k, status: 'unknown' }
AppKey(v) == [value |-> v, status |-> "unknown", error |-> NoErrorField, dailyUsage |-> Undefined]

\* the result of a call that has not returned
NoVerdict == [status |-> "unknown", error |-> NoErrorField]

\* no call of validateYouTubeApiKey taken on its own
NoProbe ==
    probe = [pc |-> "idle", key |-> <<>>, requested |-> FALSE,
             response |-> [resp |-> Pending, readable |-> FALSE], result |-> NoVerdict]

\* the application with no key and nothing to validate
NoApp ==
    /\ appKeys = <<>>
    /\ validatingKeys = {}
    /\ probes = [v \in ProbeKeys |-> 0]
    /\ effectDue = FALSE

----------------------------------------------------------------------------
(* Channel operations: getChannelStats and getChannelStatsBatch *)

\* identifiers.slice(i, i + 50)
ChunkSize == 50

\* channel identifiers and IDs, strings as sequences of characters
CanonicalId == <<"U", "C", "1">>
FoundByUsername == <<"U", "C", "2">>
FoundBySearch == <<"U", "C", "3">>
Identifiers == { CanonicalId, <<"n", "a", "m", "e">>, <<"U">>, <<>> }

\* channelIdentifier.startsWith('UC')
StartsWithUC(str) == Len(str) >= 2 /\ str[1] = "U" /\ str[2] = "C"

\* what a caller of fetchYouTubeAPI gets: the call raises, or returns a
\* body without items, with an empty items array, or with items
RouterOutcomes == {"raise", "absent", "empty", "items"}

\* data.items && data.items.length > 0 (a raise never gets to the test)
HasItems(outcome) == outcome = "items"

\* what a caller of fetchYouTubeAPI gets for a chunk of IDs: the call
\* raises, or returns a body without items, with an item for every ID of
\* the chunk, or with an item for its first ID only
ChunkOutcomes == {"raise", "absent", "items", "partial"}

\* the IDs of the items of the body returned for a chunk
ItemIds(chunk, outcome) ==
    CASE outcome = "items" -> chunk
      [] outcome = "partial" -> SubSeq(chunk, 1, 1)
      [] OTHER -> <<>>

\* the entry of the result built from one item of a chunk
ToStat(id) == [id |-> id, status |-> "active"]

\* a chunk that takes one ID too many
ChunkAt_Inclusive(ids, i) ==
    SubSeq(ids, i + 1, IF i + ChunkSize + 1 < Len(ids) THEN i + ChunkSize + 1 ELSE Len(ids))

\* channelIds.slice(i, i + 50)
ChunkAt(ids, i) ==
    SubSeq(ids, i + 1, IF i + ChunkSize < Len(ids) THEN i + ChunkSize ELSE Len(ids))

\* the placeholder returned by the catch block of getChannelStats
Placeholder(resolvedId) ==
    [status |-> "terminated",
     id |-> IF StartsWithUC(resolvedId) THEN resolvedId ELSE <<"I", "N", "V", "A", "L", "I", "D", "_", "I", "D">>,
     subscriberCount |-> "0", videoCount |-> "0", viewCount |-> "0",
     newestVideo |-> "undefined", oldestVideo |-> "undefined"]

\* the result built from the channel item and the two videos
ActiveStats(resolvedId, newest, oldest) ==
    [status |-> "active", id |-> resolvedId,
     subscriberCount |-> "1200", videoCount |-> "34", viewCount |-> "56000",
     newestVideo |-> newest, oldestVideo |-> oldest]

\* no result yet
NoStats ==
    [status |-> "none", id |-> <<>>, subscriberCount |-> "", videoCount |-> "", viewCount |-> "",
     newestVideo |-> "undefined", oldestVideo |-> "undefined"]

\* a sub-fetch that has not started (gave records what its calls gave)
IdleSub == [pc |-> "idle", video |-> "undefined", gave |-> <<>>]

\* the video IDs of playlist entries; 0 is an entry without a video ID
EntryIds == {0, 1, 2}

\* the items of the body of a playlistItems call: the IDs of its entries
Pages == UNION { [1..n -> EntryIds] : n \in 1..MaxPage }

\* playlistData.nextPageToken
PageTokens == {"undefined", "T"}

\* items.map(item => item.snippet?.resourceId?.videoId).filter(Boolean)
RequestedIds(entries) == SelectSeq(entries, LAMBDA id : id # 0)

\* the items of the body of a videos call for the given IDs: any of the IDs
\* asked for, each at most once, in any order
StatisticsFor(ids) ==
    UNION { { items \in [1..n -> {ids[x] : x \in 1..Len(ids)}] :
                \A x, y \in 1..n : x # y => items[x] # items[y] }
            : n \in 0..Len(ids) }

\* the VideoStat built from an item of the videos call
ToVideo(id) == [id |-> id, viewCount |-> "7"]

\* null in a list of VideoStat
NullVideo == [id |-> -1, viewCount |-> "null"]

RECURSIVE NotNull(_)
\* .filter(v => v !== null)
NotNull(seq) ==
    IF seq = <<>> THEN <<>>
    ELSE IF Head(seq) = NullVideo THEN NotNull(Tail(seq))
    ELSE <<Head(seq)>> \o NotNull(Tail(seq))

\* the videos in the order of the statistics response
VideosOf_StatsOrder(entries, items) ==
    NotNull([x \in 1..Len(items) |->
                IF \E y \in 1..Len(entries) : entries[y] = items[x]
                THEN ToVideo(items[x]) ELSE NullVideo])

\* originalOrderVideoIds.map(id => videoDataMap.get(id) ? {...} : null)
\*                      .filter(v => v !== null)
VideosOf(entries, items) ==
    NotNull([x \in 1..Len(entries) |->
                IF \E y \in 1..Len(items) : items[y] = entries[x]
                THEN ToVideo(entries[x]) ELSE NullVideo])

\* what getChannelVideos returns
VideoPage(videos, nextPageToken) == [videos |-> videos, nextPageToken |-> nextPageToken]

\* no playlist page received
NoPlaylist == [outcome |-> "none", items |-> <<>>, nextPageToken |-> "undefined"]

\* no channel operation.  pc is the position of the operation; op its name;
\* identifier, resolvedId, newest, oldest and result belong to
\* getChannelStats (metadata records what its channel-metadata call gave);
\* ids, i and results belong to getChannelStatsBatch (chunks records, for
\* each chunk fetched, its IDs and the IDs of the items returned, with
\* failed set when the call raised); lookups records what the calls of
\* resolveChannelId gave; playlist, statistics and page belong to
\* getChannelVideos (what its two calls gave, and its result); requests
\* lists the Router calls issued.
IdleTask ==
    [pc |-> "idle", op |-> "none", identifier |-> <<>>, resolvedId |-> <<>>,
     metadata |-> "none", newest |-> IdleSub, oldest |-> IdleSub, result |-> NoStats,
     ids |-> <<>>, i |-> 0, results |-> <<>>, chunks |-> <<>>, requests |-> <<>>,
     lookups |-> <<>>, playlist |-> NoPlaylist,
     statistics |-> [outcome |-> "none", items |-> <<>>],
     page |-> VideoPage(<<>>, "undefined")]

NoTask == task = IdleTask

----------------------------------------------------------------------------
(* State *)

\* one activation of fetchYouTubeAPI.  pc is its position: "idle" (not
\* started), "fetching" (suspended in await fetch), "parsing" (suspended in
\* return await response.json()), "returned", "raised".  The other fields
\* are its locals (cost, startIndex, i, keyIndex, lastError) and its outcome
\* (result).  History kept for the properties: id numbers the activation;
\* before is the shared state when it started; attempts lists the requests
\* it issued, each with the index and value of the credential sent and the
\* value of the credential that updateKeyUsage charged for it ("" for
\* none); got is the latest response received (Pending before the first)
\* and body the fate of its body when it was ok ("" while it is read,
\* "parsed", "unparsed"); replaced tells that setApiKeys ran while the
\* activation was suspended.
IdleCall ==
    [pc |-> "idle", id |-> 0, cost |-> 0, startIndex |-> 0, i |-> 0, keyIndex |-> 0,
     lastError |-> NoError, result |-> NoResult, attempts |-> <<>>,
     got |-> Pending, body |-> "", replaced |-> FALSE,
     before |-> [session |-> 0, cursor |-> 0, usage |-> <<>>]]

\* the quota observers (callbacks handed to setOnQuotaChange), 0 for null
Observers == 1..MaxObservers

\* an observer that was handed nothing yet
NoPair == [session |-> -1, daily |-> -1]

\* getInitialQuota(), and the pair handed to the observer
QuotaPair(session, keys) == [session |-> session, daily |-> getTotalDailyUsage(keys)]

\* if (onQuotaChangeCallback) onQuotaChangeCallback({session, daily})
Notify(seen, callback, session, keys) ==
    IF callback = 0 THEN seen ELSE [seen EXCEPT ![callback] = QuotaPair(session, keys)]

\* the service once the application has mounted (its observer registered,
\* its quota state read with getInitialQuota) and loaded its list of keys
InitService(lists) ==
    /\ \E ks \in lists :
          /\ lastKeys = ks
          /\ apiKeys = [x \in 1..Len(ks) |-> MergeKey(<<>>, ks[x])]
    /\ currentKeyIndex = 0
    /\ sessionQuotaUsed = 0
    /\ calls = [c \in Calls |-> IdleCall]
    /\ ops = 0
    /\ writes = <<>>

\* the application has mounted: its observer is registered and its quota
\* state was read with getInitialQuota
Mounted ==
    /\ onQuotaChangeCallback = 1
    /\ quotaSeen = [o \in Observers |-> IF o = 1 THEN QuotaPair(0, apiKeys) ELSE NoPair]

Init == InitService(LoadedLists) /\ Mounted /\ NoApp /\ NoProbe /\ NoTask

InFlight(c) == calls[c].pc \in {"fetching", "parsing"}

\* a call with the response to its latest request
WithResponse(rec, resp) == [rec EXCEPT !.got = resp]

\* a call with the fate of the body of its latest response
WithBody(rec, fate) == [rec EXCEPT !.body = fate]

\* the scan loop from iteration `from` up to its next suspension (the
\* request issued for the first credential not skipped) or to the throw
\* after the loop
Scan(rec, keys, from) ==
    LET n == Len(keys)
        j == NextAttempt(keys, rec.startIndex, from, rec.cost)
    IN  IF j >= n
        THEN [rec EXCEPT !.pc = "raised", !.i = j, !.result = AggregateError(rec.lastError)]
        ELSE LET k == KeyIndexAt(rec.startIndex, j, n) IN
             [rec EXCEPT !.pc = "fetching", !.i = j, !.keyIndex = k,
                         !.attempts = Append(@, [idx |-> k, sent |-> keys[k + 1].value,
                                                 charged |-> ""])]

\* a catch block that rethrows instead of continuing
Catch_Rethrow(rec, keys, message) ==
    [rec EXCEPT !.lastError = message, !.pc = "raised",
                !.result = [kind |-> "thrown", message |-> message]]

\* the catch block: lastError = error; continue
Catch(rec, keys, message) ==
    Scan([rec EXCEPT !.lastError = message], keys, rec.i + 1)

\* currentKeyIndex = keyIndex, after a successful response
NewCursor(current, keyIndex) == keyIndex

----------------------------------------------------------------------------
(* Operations *)

\* setApiKeys(keys)
setApiKeys(keys) ==
    LET merged == [x \in 1..Len(keys) |-> MergeKey(apiKeys, keys[x])] IN
    /\ apiKeys' = merged
    /\ currentKeyIndex' = IF currentKeyIndex >= Len(merged) THEN 0 ELSE currentKeyIndex
    /\ quotaSeen' = Notify(quotaSeen, onQuotaChangeCallback, sessionQuotaUsed, merged)
    /\ lastKeys' = keys
    /\ calls' = [c \in Calls |-> IF InFlight(c) THEN [calls[c] EXCEPT !.replaced = TRUE] ELSE calls[c]]
    /\ UNCHANGED <<sessionQuotaUsed, onQuotaChangeCallback>>

\* the effect of the application that hands its key list to the service
\* whenever the list changes and is not empty
KeysEffect(keys) ==
    /\ ops < MaxOps
    /\ Len(keys) > 0
    /\ ops' = ops + 1
    /\ setApiKeys(keys)
    /\ UNCHANGED <<appVars, probeVars, storeVars, taskVars>>

\* fetchYouTubeAPI(endpoint, params) up to its first suspension
Call(c, endpoint) ==
    /\ ~InFlight(c)
    /\ ops < MaxOps
    /\ ops' = ops + 1
    /\ LET fresh == [IdleCall EXCEPT
                        !.id = ops + 1,
                        !.before = [session |-> sessionQuotaUsed, cursor |-> currentKeyIndex,
                                    usage |-> [x \in 1..Len(apiKeys) |-> apiKeys[x].dailyUsage]]]
       IN  IF Len(apiKeys) = 0
           THEN calls' = [calls EXCEPT ![c] = [fresh EXCEPT !.pc = "raised", !.result = ConfigError]]
           ELSE calls' = [calls EXCEPT ![c] =
                    Scan([fresh EXCEPT !.cost = QUOTA_COSTS(endpoint), !.startIndex = currentKeyIndex],
                         apiKeys, 0)]
    /\ UNCHANGED <<apiKeys, currentKeyIndex, sessionQuotaUsed, onQuotaChangeCallback, quotaSeen, lastKeys>>
    /\ UNCHANGED <<appVars, probeVars, storeVars, taskVars>>

\* await fetch(...) rejects: the catch block runs
FetchFails(c, resp) ==
    /\ calls[c].pc = "fetching"
    /\ resp.transport
    /\ calls' = [calls EXCEPT ![c] = Catch(WithResponse(@, resp), apiKeys, resp.message)]
    /\ UNCHANGED <<apiKeys, currentKeyIndex, sessionQuotaUsed, onQuotaChangeCallback, quotaSeen, lastKeys, ops>>
    /\ UNCHANGED <<appVars, probeVars, storeVars, taskVars>>

\* await fetch(...) resolves with !response.ok; the body of the error is
\* read (no shared state is touched while it is awaited) and classified
ErrorResponse(c, resp) ==
    /\ calls[c].pc = "fetching"
    /\ ~resp.transport /\ ~resp.ok
    /\ LET message == ErrorMessage(resp)
           rec == [WithResponse(calls[c], resp) EXCEPT !.lastError = message]
       IN  calls' = [calls EXCEPT ![c] =
                IF IsKeyRelated(resp.reason, resp.status)
                THEN \* continue
                     Scan(rec, apiKeys, rec.i + 1)
                ELSE \* throw lastError, inside the try block
                     Catch(rec, apiKeys, message)]
    /\ UNCHANGED <<apiKeys, currentKeyIndex, sessionQuotaUsed, onQuotaChangeCallback, quotaSeen, lastKeys, ops>>
    /\ UNCHANGED <<appVars, probeVars, storeVars, taskVars>>

\* await fetch(...) resolves with response.ok: updateKeyUsage, the cursor
\* and the observers, up to the suspension in return await response.json()
OkResponse(c, resp) ==
    /\ calls[c].pc = "fetching"
    /\ resp.ok
    /\ LET k == calls[c].keyIndex
           cost == calls[c].cost
           keys == UpdatedKeys(apiKeys, k, cost)
           session == UpdatedSession(apiKeys, k, cost, sessionQuotaUsed)
       IN  /\ apiKeys' = keys
           /\ sessionQuotaUsed' = session
           /\ quotaSeen' = IF k < Len(apiKeys)
                           THEN Notify(quotaSeen, onQuotaChangeCallback, session, keys)
                           ELSE quotaSeen
           /\ currentKeyIndex' = NewCursor(currentKeyIndex, k)
           /\ calls' = [calls EXCEPT ![c] =
                [WithBody(WithResponse(@, resp), "") EXCEPT
                    !.pc = "parsing",
                    !.attempts[Len(@.attempts)].charged =
                        IF k < Len(apiKeys) THEN apiKeys[k + 1].value ELSE ""]]
           /\ writes' = IF k < Len(apiKeys)
                        THEN Append(writes, StoreWrite(calls[c].id, apiKeys[k + 1].value,
                                                       keys[k + 1].dailyUsage, cost))
                        ELSE writes
    /\ UNCHANGED <<onQuotaChangeCallback, lastKeys, ops>>
    /\ UNCHANGED <<appVars, probeVars, taskVars>>

\* return await response.json() resolves: the call returns the result
BodyParsed(c) ==
    /\ calls[c].pc = "parsing"
    /\ calls' = [calls EXCEPT ![c] = [WithBody(@, "parsed") EXCEPT !.pc = "returned"]]
    /\ UNCHANGED <<apiKeys, currentKeyIndex, sessionQuotaUsed, onQuotaChangeCallback, quotaSeen, lastKeys, ops>>
    /\ UNCHANGED <<appVars, probeVars, storeVars, taskVars>>

\* return await response.json() rejects: the catch block runs
BodyFails(c) ==
    /\ calls[c].pc = "parsing"
    /\ calls' = [calls EXCEPT ![c] = Catch(WithBody(@, "unparsed"), apiKeys, ParseError)]
    /\ UNCHANGED <<apiKeys, currentKeyIndex, sessionQuotaUsed, onQuotaChangeCallback, quotaSeen, lastKeys, ops>>
    /\ UNCHANGED <<appVars, probeVars, storeVars, taskVars>>

\* One activation of fetchYouTubeAPI at a time, interleaved at its
\* suspension points with setApiKeys.
Next ==
    \/ \E keys \in KeyLists : KeysEffect(keys)
    \/ \E e \in Endpoints : Call(1, e)
    \/ \E c \in Calls, r \in Responses : FetchFails(c, r)
    \/ \E c \in Calls, r \in Responses : ErrorResponse(c, r)
    \/ \E c \in Calls, r \in Responses : OkResponse(c, r)
    \/ \E c \in Calls : BodyParsed(c)
    \/ \E c \in Calls : BodyFails(c)

Spec == Init /\ [][Next]_vars

\* Two activations of fetchYouTubeAPI interleaved at their suspension
\* points (as the two sub-fetches that getChannelStats runs together), on a
\* pool that is not replaced.
NextConcurrent ==
    \/ \E c \in Calls, e \in Endpoints : Call(c, e)
    \/ \E c \in Calls, r \in Responses : FetchFails(c, r)
    \/ \E c \in Calls, r \in Responses : ErrorResponse(c, r)
    \/ \E c \in Calls, r \in Responses : OkResponse(c, r)
    \/ \E c \in Calls : BodyParsed(c)
    \/ \E c \in Calls : BodyFails(c)

SpecConcurrent == Init /\ [][NextConcurrent]_vars

\* pools of more than one key, every key valid, with a dailyUsage at the
\* cap, a search below it, or absent
QuotaLists ==
    { ks \in ListsOf({<<"valid", 10000>>, <<"valid", 9900>>, <<"valid", Undefined>>}) :
        /\ Len(ks) > 1
        /\ \A x \in 1..Len(ks) : ks[x].value = KeyNames[x] }

\* Two activations of fetchYouTubeAPI interleaved at their suspension
\* points on a pool of more than one key that is not replaced.
InitQuota == InitService(QuotaLists) /\ Mounted /\ NoApp /\ NoProbe /\ NoTask

SpecQuota == InitQuota /\ [][NextConcurrent]_vars

\* what fetch() produces in the narrower specifications: a response that
\* is charged, and one that makes the call move on to the next key
ObservedResponses == { r \in Responses : r.ok \/ r.status = 403 }

\* the lists of keys as the settings save them, none checked yet
ObservedKeyLists == KeyLists \cap ListsOf({<<"unknown", Undefined>>})

\* a settling that takes a failed write back out of the counters
StoreWriteSettles_RollBack(x, outcome) ==
    /\ x \in 1..Len(writes)
    /\ writes[x].state = "pending"
    /\ writes' = [writes EXCEPT ![x].state = outcome]
    /\ IF outcome = "stored"
       THEN UNCHANGED <<apiKeys, sessionQuotaUsed>>
       ELSE /\ apiKeys' = [y \in 1..Len(apiKeys) |->
                             IF apiKeys[y].value = writes[x].value
                             THEN [apiKeys[y] EXCEPT !.dailyUsage = @ - writes[x].cost]
                             ELSE apiKeys[y]]
            /\ sessionQuotaUsed' = sessionQuotaUsed - writes[x].cost
    /\ UNCHANGED <<currentKeyIndex, onQuotaChangeCallback, quotaSeen, lastKeys, calls, ops>>
    /\ UNCHANGED <<appVars, probeVars, taskVars>>

\* the write settles: .then(({ error }) => { if (error) console.error(...) })
\* runs, or the promise rejects and nothing runs
StoreWriteSettles(x, outcome) ==
    /\ x \in 1..Len(writes)
    /\ writes[x].state = "pending"
    /\ writes' = [writes EXCEPT ![x].state = outcome]
    /\ UNCHANGED <<apiKeys, sessionQuotaUsed>>
    /\ UNCHANGED <<currentKeyIndex, onQuotaChangeCallback, quotaSeen, lastKeys, calls, ops>>
    /\ UNCHANGED <<appVars, probeVars, taskVars>>

\* One activation of fetchYouTubeAPI at a time, with the writes to the
\* remote store settling at any later moment.  The pool starts from keys
\* that were never checked, and the API answers with success or a 403.
NextStore ==
    \/ \E e \in Endpoints : Call(1, e)
    \/ \E c \in Calls, r \in ObservedResponses : ErrorResponse(c, r)
    \/ \E c \in Calls, r \in ObservedResponses : OkResponse(c, r)
    \/ \E c \in Calls : BodyParsed(c)
    \/ \E c \in Calls : BodyFails(c)
    \/ \E x \in 1..MaxOps, outcome \in WriteOutcomes : StoreWriteSettles(x, outcome)

InitStore == InitService(ObservedKeyLists) /\ Mounted /\ NoApp /\ NoProbe /\ NoTask

SpecStore == InitStore /\ [][NextStore]_vars

\* the lists loaded at startup in the specification of the observers
ObservedLists ==
    { ks \in ListsOf({<<"valid", Undefined>>, <<"checking", 9950>>}) :
        \A x \in 1..Len(ks) : ks[x].value = KeyNames[x] }

\* the service before any observer is registered
InitObservers ==
    /\ NoApp /\ NoProbe /\ NoTask
    /\ InitService(ObservedLists)
    /\ onQuotaChangeCallback = 0
    /\ quotaSeen = [o \in Observers |-> NoPair]

\* getInitialQuota(), read by the observer that registers next
getInitialQuota(o) ==
    /\ o = onQuotaChangeCallback + 1
    /\ quotaSeen[o] = NoPair
    /\ quotaSeen' = [quotaSeen EXCEPT ![o] = QuotaPair(sessionQuotaUsed, apiKeys)]
    /\ UNCHANGED <<apiKeys, currentKeyIndex, sessionQuotaUsed, onQuotaChangeCallback, lastKeys, calls, ops>>
    /\ UNCHANGED <<appVars, probeVars, storeVars, taskVars>>

\* setOnQuotaChange(callback): the observers register one after the other
setOnQuotaChange(o) ==
    /\ o = onQuotaChangeCallback + 1
    /\ quotaSeen[o] # NoPair
    /\ onQuotaChangeCallback' = o
    /\ UNCHANGED <<apiKeys, currentKeyIndex, sessionQuotaUsed, quotaSeen, lastKeys, calls, ops>>
    /\ UNCHANGED <<appVars, probeVars, storeVars, taskVars>>

\* The service with observers that read the quota and register while keys
\* are set and searches run whose requests all get a response.
NextObservers ==
    \/ \E o \in Observers : getInitialQuota(o)
    \/ \E o \in Observers : setOnQuotaChange(o)
    \/ \E keys \in ObservedKeyLists : KeysEffect(keys)
    \/ Call(1, "search")
    \/ \E c \in Calls, r \in ObservedResponses : ErrorResponse(c, r)
    \/ \E c \in Calls, r \in ObservedResponses : OkResponse(c, r)
    \/ \E c \in Calls : BodyParsed(c)
    \/ \E c \in Calls : BodyFails(c)

SpecObservers == InitObservers /\ [][NextObservers]_vars

----------------------------------------------------------------------------
(* validateYouTubeApiKey on its own *)

\* the characters of the key strings
KeyChars == {" ", "\t", "a"}

\* the key strings of at most MaxKeyLen characters
KeyStrings == UNION { [1..n -> KeyChars] : n \in 0..MaxKeyLen }

\* a call validateYouTubeApiKey(key) whose request, if issued, produces pr
InitProbe ==
    /\ InitService({<<>>}) /\ Mounted
    /\ NoApp /\ NoTask
    /\ \E key \in KeyStrings, pr \in ProbeResponses :
          probe = [pc |-> "called", key |-> key, requested |-> FALSE,
                   response |-> pr, result |-> NoVerdict]

\* the call runs to its return
Validate ==
    /\ probe.pc = "called"
    /\ probe' = [probe EXCEPT !.pc = "returned",
                              !.requested = ~IsBlank(probe.key),
                              !.result = validateYouTubeApiKey(probe.key, probe.response)]
    /\ UNCHANGED <<serviceVars, appVars, taskVars, storeVars>>

NextProbe == Validate

SpecProbe == InitProbe /\ [][NextProbe]_vars

----------------------------------------------------------------------------
(* The application: key list, validation effect, user actions *)

\* the key lists a user can save: distinct values, at most MaxAppKeys
SavedValueLists ==
    UNION { { vs \in [1..n -> ProbeKeys] : \A x, y \in 1..n : x # y => vs[x] # vs[y] }
            : n \in 0..MaxAppKeys }

\* what the request of a probe produces in the specification of the
\* application: one response for each verdict (valid, quota_exceeded,
\* invalid)
AppProbeResponses ==
    { pr \in ProbeResponses :
        pr.readable /\ (pr.resp.ok \/ pr.resp.reason \in {"quotaExceeded", "badRequest"}) }

\* the application before its keys are loaded, the service with an empty pool
InitValidation ==
    /\ InitService({<<>>}) /\ Mounted
    /\ NoApp /\ NoProbe /\ NoTask

\* prev.map(k => k.value === v ? { ...k, status, error } : k)
WithStatus(keys, v, status, error) ==
    [x \in 1..Len(keys) |->
        IF keys[x].value = v THEN [keys[x] EXCEPT !.status = status, !.error = error]
        ELSE keys[x]]

\* a test that does not look at validatingKeysRef
CanValidate_AnyUnknown(k, validating) == k.status = "unknown"

\* k.status === 'unknown' && !validatingKeysRef.current.has(k.value)
CanValidate(k, validating) == k.status = "unknown" /\ k.value \notin validating

\* apiKeys.find(...) of the validation effect: the index of the first key
\* to validate, 0 for none
NextKeyToValidate(keys, validating) ==
    IF \E x \in 1..Len(keys) : CanValidate(keys[x], validating)
    THEN CHOOSE x \in 1..Len(keys) :
            /\ CanValidate(keys[x], validating)
            /\ \A y \in 1..(x - 1) : ~CanValidate(keys[y], validating)
    ELSE 0

\* onApiKeysChange(keys), once the list is stored
SaveKeys(values) ==
    /\ ops < MaxUserActions
    /\ ops' = ops + 1
    /\ appKeys' = [x \in 1..Len(values) |-> AppKey(values[x])]
    /\ effectDue' = TRUE
    /\ UNCHANGED <<validatingKeys, probes, probeVars, storeVars, taskVars>>
    /\ UNCHANGED <<apiKeys, currentKeyIndex, sessionQuotaUsed, onQuotaChangeCallback,
                   quotaSeen, lastKeys, calls>>

\* onRevalidateAll()
RevalidateAll ==
    /\ ops < MaxUserActions
    /\ ops' = ops + 1
    /\ appKeys' = [x \in 1..Len(appKeys) |-> [appKeys[x] EXCEPT !.status = "unknown"]]
    /\ effectDue' = TRUE
    /\ UNCHANGED <<validatingKeys, probes, probeVars, storeVars, taskVars>>
    /\ UNCHANGED <<apiKeys, currentKeyIndex, sessionQuotaUsed, onQuotaChangeCallback,
                   quotaSeen, lastKeys, calls>>

\* the effects that depend on the key list, run after a render with a
\* changed list: the list is handed to the service, and the validation of
\* the next unknown key is started (up to the await of its probe)
Effects ==
    /\ effectDue
    /\ IF Len(appKeys) > 0
       THEN setApiKeys(appKeys)
       ELSE UNCHANGED <<apiKeys, currentKeyIndex, sessionQuotaUsed, onQuotaChangeCallback,
                        quotaSeen, lastKeys, calls>>
    /\ LET x == NextKeyToValidate(appKeys, validatingKeys) IN
       IF x # 0
       THEN LET v == appKeys[x].value IN
            /\ validatingKeys' = validatingKeys \cup {v}
            /\ appKeys' = WithStatus(appKeys, v, "checking", appKeys[x].error)
            /\ probes' = [probes EXCEPT ![v] = @ + 1]
            /\ effectDue' = TRUE
       ELSE /\ effectDue' = FALSE
            /\ UNCHANGED <<appKeys, validatingKeys, probes>>
    /\ UNCHANGED <<ops, probeVars, storeVars, taskVars>>

\* a validate() that leaves v in validatingKeysRef
ProbeCompletes_StaysInSet(v, pr) ==
    /\ probes[v] > 0
    /\ LET result == validateYouTubeApiKey(v, pr)
       IN  appKeys' = WithStatus(appKeys, v, result.status, result.error)
    /\ probes' = [probes EXCEPT ![v] = @ - 1]
    /\ effectDue' = TRUE
    /\ UNCHANGED <<validatingKeys, serviceVars, probeVars, storeVars, taskVars>>

\* validateYouTubeApiKey(v) resolves and validate() resumes: the status is
\* stored and v leaves validatingKeysRef
ProbeCompletes(v, pr) ==
    /\ probes[v] > 0
    /\ LET result == validateYouTubeApiKey(v, pr)
       IN  appKeys' = WithStatus(appKeys, v, result.status, result.error)
    /\ validatingKeys' = validatingKeys \ {v}
    /\ probes' = [probes EXCEPT ![v] = @ - 1]
    /\ effectDue' = TRUE
    /\ UNCHANGED <<serviceVars, probeVars, storeVars, taskVars>>

NextValidation ==
    \/ \E values \in SavedValueLists : SaveKeys(values)
    \/ RevalidateAll
    \/ Effects
    \/ \E v \in ProbeKeys, pr \in AppProbeResponses : ProbeCompletes(v, pr)

SpecValidation == InitValidation /\ [][NextValidation]_vars

\* the position of a value in the order in which the user enters the keys
ValueRank(v) == IF v = <<" ", "\t">> THEN 1 ELSE IF v = <<"a">> THEN 2 ELSE 3

\* the lists the user saves: keys are added and removed, never reordered
EnteredValueLists ==
    { vs \in SavedValueLists :
        \A x, y \in 1..Len(vs) : x < y => ValueRank(vs[x]) < ValueRank(vs[y]) }

\* what the request of a probe produces: success or an exhausted quota (a
\* blank key is invalid without a request)
VerdictResponses ==
    { pr \in AppProbeResponses : pr.resp.ok \/ pr.resp.reason = "quotaExceeded" }

NextValidationLive ==
    \/ \E values \in EnteredValueLists : SaveKeys(values)
    \/ RevalidateAll
    \/ Effects
    \/ \E v \in ProbeKeys, pr \in VerdictResponses : ProbeCompletes(v, pr)

\* The application where the effects due are run and every probe started
\* completes.
SpecValidationLive ==
    /\ InitValidation /\ [][NextValidationLive]_vars
    /\ WF_vars(Effects)
    /\ \A v \in ProbeKeys : WF_vars(\E pr \in VerdictResponses : ProbeCompletes(v, pr))

\* the application with a saved list of keys, rendered and about to run its
\* effects for the first time
InitSettings ==
    /\ InitService({<<>>}) /\ Mounted
    /\ NoProbe /\ NoTask
    /\ \E values \in SavedValueLists :
          appKeys = [x \in 1..Len(values) |-> AppKey(values[x])]
    /\ validatingKeys = {}
    /\ probes = [v \in ProbeKeys |-> 0]
    /\ effectDue = TRUE

\* The user saves key lists while the effects run, the probes complete and
\* calls of fetchYouTubeAPI are made one at a time.
NextSettings ==
    \/ \E values \in SavedValueLists : SaveKeys(values)
    \/ Effects
    \/ \E v \in ProbeKeys, pr \in AppProbeResponses : ProbeCompletes(v, pr)
    \/ Call(1, "channels")
    \/ \E c \in Calls, r \in ObservedResponses : ErrorResponse(c, r)
    \/ \E c \in Calls, r \in ObservedResponses : OkResponse(c, r)
    \/ \E c \in Calls : BodyParsed(c)
    \/ \E c \in Calls : BodyFails(c)

SpecSettings == InitSettings /\ [][NextSettings]_vars

----------------------------------------------------------------------------
(* getChannelStats and getChannelStatsBatch, step by step.  Each Router     *)
(* call is one suspension; what it gives the caller is drawn from           *)
(* RouterOutcomes or ChunkOutcomes.                                         *)

InitChannels ==
    /\ InitService({<<>>}) /\ Mounted
    /\ NoApp /\ NoProbe /\ NoTask

\* fetchYouTubeAPI(endpoint, ...) is called
Request(t, endpoint, arg) ==
    [t EXCEPT !.requests = Append(@, [endpoint |-> endpoint, arg |-> arg])]

\* a catch block that lets the error through
StatsCatch_Rethrow(t) == [t EXCEPT !.pc = "raised"]

\* the catch block of getChannelStats
StatsCatch(t) == [t EXCEPT !.pc = "done", !.result = Placeholder(t.resolvedId)]

\* resolveChannelId has returned: the channel-metadata call
FetchMetadata(t, resolvedId) ==
    Request([t EXCEPT !.pc = "metadata", !.resolvedId = resolvedId], "channels", resolvedId)

\* getChannelStats(channelIdentifier) up to its first suspension
GetChannelStats(identifier) ==
    /\ task.pc = "idle"
    /\ LET t == [IdleTask EXCEPT !.op = "stats", !.identifier = identifier] IN
       task' = IF StartsWithUC(identifier)
               THEN FetchMetadata(t, identifier)
               ELSE Request([t EXCEPT !.pc = "username"], "channels", identifier)
    /\ UNCHANGED <<serviceVars, appVars, probeVars, storeVars>>

\* a resolveChannelId that searches whatever the username lookup gave
UsernameReturns_SearchAlways(outcome) ==
    /\ task.pc = "username"
    /\ task' = Request([task EXCEPT !.pc = "search", !.lookups = Append(@, outcome)],
                       "search", task.identifier)
    /\ UNCHANGED <<serviceVars, appVars, probeVars, storeVars>>

\* resolveChannelId: the username lookup returns or raises
UsernameReturns(outcome) ==
    /\ task.pc = "username"
    /\ LET t == [task EXCEPT !.lookups = Append(@, outcome)] IN
       task' = IF HasItems(outcome)
               THEN FetchMetadata(t, FoundByUsername)
               ELSE Request([t EXCEPT !.pc = "search"], "search", t.identifier)
    /\ UNCHANGED <<serviceVars, appVars, probeVars, storeVars>>

\* resolveChannelId: the keyword search returns or raises
SearchReturns(outcome) ==
    /\ task.pc = "search"
    /\ LET t == [task EXCEPT !.lookups = Append(@, outcome)] IN
       task' = FetchMetadata(t, IF HasItems(outcome) THEN FoundBySearch ELSE t.identifier)
    /\ UNCHANGED <<serviceVars, appVars, probeVars, storeVars>>

\* the channel-metadata call returns or raises; with a channel, the two
\* video sub-fetches are started together
MetadataReturns(outcome) ==
    /\ task.pc = "metadata"
    /\ LET t == [task EXCEPT !.metadata = outcome] IN
       task' = IF HasItems(outcome)
               THEN Request(Request([t EXCEPT !.pc = "videos", !.newest.pc = "playlist",
                                              !.oldest.pc = "search"],
                                    "playlistItems", <<"U", "U", "1">>),
                            "search", t.resolvedId)
               ELSE StatsCatch(t)
    /\ UNCHANGED <<serviceVars, appVars, probeVars, storeVars>>

\* Promise.all resolves once both sub-fetches have returned
Settle(t) ==
    IF t.newest.pc = "done" /\ t.oldest.pc = "done"
    THEN [t EXCEPT !.pc = "done",
                   !.result = ActiveStats(t.resolvedId, t.newest.video, t.oldest.video)]
    ELSE t

\* getAbsoluteNewestVideo: the playlistItems call returns or raises
NewestPlaylistReturns(outcome) ==
    /\ task.pc = "videos" /\ task.newest.pc = "playlist"
    /\ LET t == [task EXCEPT !.newest.gave = Append(@, outcome)] IN
       task' = IF HasItems(outcome)
               THEN Request([t EXCEPT !.newest.pc = "stats"], "videos", <<"v">>)
               ELSE Settle([t EXCEPT !.newest.pc = "done", !.newest.video = "null"])
    /\ UNCHANGED <<serviceVars, appVars, probeVars, storeVars>>

\* getAbsoluteNewestVideo: the videos call returns or raises
NewestStatsReturns(outcome) ==
    /\ task.pc = "videos" /\ task.newest.pc = "stats"
    /\ task' = Settle([task EXCEPT !.newest.gave = Append(@, outcome),
                                   !.newest.pc = "done",
                                   !.newest.video = IF HasItems(outcome) THEN "newest" ELSE "null"])
    /\ UNCHANGED <<serviceVars, appVars, probeVars, storeVars>>

\* a getAbsoluteOldestVideo whose error reaches getChannelStats
OldestReturns_NoCatch(outcome) ==
    /\ task.pc = "videos" /\ task.oldest.pc = "search"
    /\ LET t == [task EXCEPT !.oldest.gave = Append(@, outcome), !.oldest.pc = "done",
                             !.oldest.video = IF HasItems(outcome) THEN "oldest" ELSE "null"] IN
       task' = IF outcome = "raise" THEN StatsCatch(t) ELSE Settle(t)
    /\ UNCHANGED <<serviceVars, appVars, probeVars, storeVars>>

\* getAbsoluteOldestVideo: the search call returns or raises
OldestReturns(outcome) ==
    /\ task.pc = "videos" /\ task.oldest.pc = "search"
    /\ task' = Settle([task EXCEPT !.oldest.gave = Append(@, outcome),
                                   !.oldest.pc = "done",
                                   !.oldest.video = IF HasItems(outcome) THEN "oldest" ELSE "null"])
    /\ UNCHANGED <<serviceVars, appVars, probeVars, storeVars>>

\* the catch block of getChannelStatsBatch: the error is logged only
BatchCatch(t) == t

\* getChannelStatsBatch(channelIds) up to its first suspension
GetChannelStatsBatch(n) ==
    /\ task.pc = "idle"
    /\ LET ids == [x \in 1..n |-> x]
           t == [IdleTask EXCEPT !.op = "batch", !.ids = ids]
       IN  task' = IF n = 0
                   THEN [t EXCEPT !.pc = "done"]
                   ELSE Request([t EXCEPT !.pc = "chunk"], "channels", ChunkAt(ids, 0))
    /\ UNCHANGED <<serviceVars, appVars, probeVars, storeVars>>

\* the call for the current chunk returns or raises; the next chunk is
\* requested, or the results are returned
ChunkReturns(outcome) ==
    /\ task.pc = "chunk"
    /\ LET got == ItemIds(ChunkAt(task.ids, task.i), outcome)
           logged == [task EXCEPT !.chunks = Append(@, [failed |-> outcome = "raise", items |-> got])]
           t == IF outcome = "raise"
                THEN BatchCatch(logged)
                ELSE [logged EXCEPT !.results = @ \o [x \in 1..Len(got) |-> ToStat(got[x])]]
           next == t.i + ChunkSize
       IN  task' = IF next < Len(t.ids)
                   THEN Request([t EXCEPT !.i = next], "channels", ChunkAt(t.ids, next))
                   ELSE [t EXCEPT !.i = next, !.pc = "done"]
    /\ UNCHANGED <<serviceVars, appVars, probeVars, storeVars>>

\* a catch block that keeps the continuation token of the playlist page
VideosCatch_KeepToken(t) ==
    [t EXCEPT !.pc = "done", !.page = VideoPage(<<>>, t.playlist.nextPageToken)]

\* the catch block of getChannelVideos
VideosCatch(t) == [t EXCEPT !.pc = "done", !.page = VideoPage(<<>>, "undefined")]

\* getChannelVideos(playlistId, maxResults, pageToken) up to its first
\* suspension
GetChannelVideos ==
    /\ task.pc = "idle"
    /\ task' = Request([IdleTask EXCEPT !.op = "videos", !.pc = "playlist"],
                       "playlistItems", <<"U", "U", "1">>)
    /\ UNCHANGED <<serviceVars, appVars, probeVars, storeVars>>

\* the playlistItems call has returned or raised
PlaylistGives(outcome, items, token) ==
    LET t == [task EXCEPT !.playlist = [outcome |-> outcome, items |-> items,
                                        nextPageToken |-> token]]
    IN  CASE outcome = "raise" -> VideosCatch(t)
          [] outcome \in {"absent", "empty"} ->
                [t EXCEPT !.pc = "done", !.page = VideoPage(<<>>, "undefined")]
          [] RequestedIds(items) = <<>> ->
                [t EXCEPT !.pc = "done", !.page = VideoPage(<<>>, token)]
          [] OTHER -> Request([t EXCEPT !.pc = "statistics"], "videos", RequestedIds(items))

\* the playlistItems call returns or raises
PlaylistReturns ==
    /\ task.pc = "playlist"
    /\ \/ \E outcome \in {"raise", "absent", "empty"}, token \in PageTokens :
             task' = PlaylistGives(outcome, <<>>, IF outcome = "raise" THEN "undefined" ELSE token)
       \/ \E items \in Pages, token \in PageTokens :
             task' = PlaylistGives("items", items, token)
    /\ UNCHANGED <<serviceVars, appVars, probeVars, storeVars>>

\* the videos call has returned or raised (videosData.items.map raises on
\* a body without items)
StatisticsGives(outcome, items) ==
    LET t == [task EXCEPT !.statistics = [outcome |-> outcome, items |-> items]]
    IN  IF outcome \in {"raise", "absent"}
        THEN VideosCatch(t)
        ELSE [t EXCEPT !.pc = "done",
                       !.page = VideoPage(VideosOf(t.playlist.items, items),
                                          t.playlist.nextPageToken)]

\* the videos call returns or raises
StatisticsReturns ==
    /\ task.pc = "statistics"
    /\ \/ \E outcome \in {"raise", "absent"} : task' = StatisticsGives(outcome, <<>>)
       \/ \E items \in StatisticsFor(RequestedIds(task.playlist.items)) :
             task' = StatisticsGives("items", items)
    /\ UNCHANGED <<serviceVars, appVars, probeVars, storeVars>>

NextChannels ==
    \/ \E identifier \in Identifiers : GetChannelStats(identifier)
    \/ \E o \in RouterOutcomes : UsernameReturns(o)
    \/ \E o \in RouterOutcomes : SearchReturns(o)
    \/ \E o \in RouterOutcomes : MetadataReturns(o)
    \/ \E o \in RouterOutcomes : NewestPlaylistReturns(o)
    \/ \E o \in RouterOutcomes : NewestStatsReturns(o)
    \/ \E o \in RouterOutcomes : OldestReturns(o)
    \/ \E n \in 0..MaxIds : GetChannelStatsBatch(n)
    \/ \E o \in ChunkOutcomes : ChunkReturns(o)
    \/ GetChannelVideos
    \/ PlaylistReturns
    \/ StatisticsReturns

SpecChannels == InitChannels /\ [][NextChannels]_vars

----------------------------------------------------------------------------
(* Vocabulary of the properties *)

\* a credential the skip policy excludes for an operation of the given cost
Excluded(k, cost) ==
    k.status \in {"invalid", "quota_exceeded"} \/ k.dailyUsage + cost > 10000

\* a response that signals an exhausted credential
ExhaustionSignal(resp) ==
    /\ ~resp.transport /\ ~resp.ok
    /\ resp.reason \in {"quotaExceeded", "dailyLimitExceeded"} \/ resp.status \in {403, 429}

\* a non-success response that is no exhaustion signal
HardFailure(resp) == ~resp.transport /\ ~resp.ok /\ ~ExhaustionSignal(resp)

\* the steps of a call: it starts, it issues a request, it gets the response
\* to the request in flight, it raises, it returns
Starts(c) == calls'[c].id # calls[c].id
Issues(c) ==
    calls'[c].pc = "fetching" /\ (Starts(c) \/ Len(calls'[c].attempts) > Len(calls[c].attempts))
Receives(c) ==
    calls[c].pc = "fetching" /\ calls'[c] # calls[c] /\ calls'[c].replaced = calls[c].replaced
Raises(c) == calls'[c].pc = "raised" /\ (Starts(c) \/ InFlight(c))
Returns(c) == calls[c].pc = "parsing" /\ calls'[c].pc = "returned"

\* the indices of the pool in the order the scan of a call visits them
RotationIndex(rec, j, n) == (rec.startIndex + j) % n

\* the indices a call has sent a request with
Attempted(rec) == {rec.attempts[x].idx : x \in 1..Len(rec.attempts)}

\* the message of the failure of the latest attempt of a call
LastFailureMessage(rec) ==
    IF rec.got.ok THEN ParseError
    ELSE IF rec.got.transport THEN "Failed to fetch"
    ELSE IF rec.got.message # "" THEN rec.got.message
    ELSE StatusMessage(rec.got.status)

----------------------------------------------------------------------------
(* C1: on a non-empty pool that is not replaced during the call, a call     *)
(* that returns returns the parsed body of an attempt that got a successful *)
(* response, a call raises only when every credential of the pool has been  *)
(* attempted or is excluded by the skip policy, and no call attempts the    *)
(* same credential twice.                                                   *)
C1_NoRepeat(rec) ==
    \A x, y \in 1..Len(rec.attempts) :
        x # y => rec.attempts[x].idx # rec.attempts[y].idx /\ rec.attempts[x].sent # rec.attempts[y].sent

C1_EveryEligibleKeyTriedOnce ==
    [][\A c \in Calls :
        LET rec == calls'[c] IN
        (~rec.replaced /\ Len(apiKeys') > 0) =>
            /\ C1_NoRepeat(rec)
            /\ Returns(c) => rec.got.ok /\ rec.body = "parsed"
            /\ Raises(c) =>
                 /\ rec.result.kind = "aggregate"
                 /\ \A k \in 0..(Len(apiKeys') - 1) :
                       \/ k \in Attempted(rec)
                       \/ Len(apiKeys') > 1 /\ Excluded(apiKeys'[k + 1], rec.cost)]_vars

\* a call that started at index 1, wrapped around, tried both credentials
\* and raised
C1_Witness ==
    \E c \in Calls :
        /\ calls[c].pc = "raised" /\ ~calls[c].replaced
        /\ calls[c].startIndex = 1
        /\ Len(calls[c].attempts) = 2
        /\ calls[c].attempts[1].idx = 1 /\ calls[c].attempts[2].idx = 0

----------------------------------------------------------------------------
(* C2 (as claimed): a response that is a hard failure makes the call raise  *)
(* at once, with the error of that response and not the aggregate error,    *)
(* and no further credential is attempted.                                  *)
C2_HardFailureRaisesAtOnce ==
    [][\A c \in Calls :
        (Receives(c) /\ HardFailure(calls'[c].got)) =>
            /\ Raises(c)
            /\ calls'[c].result.kind # "aggregate"
            /\ calls'[c].result.message = LastFailureMessage(calls'[c])
            /\ Len(calls'[c].attempts) = Len(calls[c].attempts)]_vars

----------------------------------------------------------------------------
(* C3 (as claimed): when a call of cost C returns with credential i and the *)
(* pool was not replaced meanwhile, the session total is C above its value  *)
(* at the start of the call, the dailyUsage of credential i is C above its  *)
(* value at the start, and the daily total shown to the observer is the sum *)
(* of the dailyUsage of the pool.                                           *)
RECURSIVE UsageUpTo(_, _)
UsageUpTo(keys, n) == IF n = 0 THEN 0 ELSE keys[n].dailyUsage + UsageUpTo(keys, n - 1)

C3_ChargedOncePerCall ==
    [][\A c \in Calls :
        LET rec == calls'[c]
            k == rec.keyIndex
        IN  (Returns(c) /\ ~rec.replaced) =>
                /\ sessionQuotaUsed' = rec.before.session + rec.cost
                /\ apiKeys'[k + 1].dailyUsage = rec.before.usage[k + 1] + rec.cost
                /\ quotaSeen'[onQuotaChangeCallback].daily = UsageUpTo(apiKeys', Len(apiKeys'))]_vars

----------------------------------------------------------------------------
(* C4: when a call returns, the cursor is the index of the credential whose *)
(* attempt succeeded, whatever the cursor was when the scan started, and a  *)
(* call that starts examines the credential at the cursor first.            *)
C4_CursorFollowsWinner ==
    [][\A c \in Calls :
        /\ Returns(c) =>
              currentKeyIndex' = calls'[c].attempts[Len(calls'[c].attempts)].idx
        /\ (Starts(c) /\ Len(apiKeys) > 0) =>
              KeyIndexAt(calls'[c].startIndex, 0, Len(apiKeys)) = currentKeyIndex]_vars

----------------------------------------------------------------------------
(* C5: in a pool of more than one credential, a request is issued only with *)
(* a credential whose status is valid, unknown or checking and whose        *)
(* dailyUsage plus the cost is at most 10,000, and every credential the     *)
(* scan passed over on the way is invalid, quota_exceeded or over the cap.  *)
C5_SkipPolicy ==
    [][\A c \in Calls :
        LET rec == calls'[c]
            n == Len(apiKeys')
            from == IF Starts(c) THEN 0 ELSE calls[c].i + 1
        IN  ((Issues(c) \/ Raises(c)) /\ n > 1) =>
                /\ Issues(c) =>
                      /\ rec.keyIndex = RotationIndex(rec, rec.i, n)
                      /\ apiKeys'[rec.keyIndex + 1].status \in {"valid", "unknown", "checking"}
                      /\ apiKeys'[rec.keyIndex + 1].dailyUsage + rec.cost <= 10000
                /\ \A j \in from..(rec.i - 1) :
                      j < n => Excluded(apiKeys'[RotationIndex(rec, j, n) + 1], rec.cost)]_vars

\* a request in flight for the second credential of the scan, the first,
\* of status checking, having been skipped for the cap alone
C5_Witness ==
    \E c \in Calls :
        /\ calls[c].pc = "fetching" /\ ~calls[c].replaced
        /\ Len(apiKeys) = 2
        /\ calls[c].i = 1 /\ Len(calls[c].attempts) = 1
        /\ apiKeys[RotationIndex(calls[c], 0, 2) + 1].status = "checking"

----------------------------------------------------------------------------
(* C6: a call that starts on a pool of exactly one credential issues a      *)
(* request with it, whatever its status and dailyUsage.                     *)
C6_LoneKeyAlwaysTried ==
    [][\A c \in Calls :
        (Starts(c) /\ Len(apiKeys) = 1) =>
            /\ Issues(c)
            /\ calls'[c].keyIndex = 0
            /\ calls'[c].attempts = <<[idx |-> 0, sent |-> apiKeys[1].value, charged |-> ""]>>]_vars

\* a request in flight with the only credential, which the skip policy
\* would exclude
C6_Witness ==
    \E c \in Calls :
        /\ calls[c].pc = "fetching" /\ ~calls[c].replaced
        /\ Len(apiKeys) = 1
        /\ Excluded(apiKeys[1], calls[c].cost)

----------------------------------------------------------------------------
(* C7: when the response to an attempt is an exhaustion signal or the       *)
(* request fails in transport, the call goes on with the next credential in *)
(* rotation order that the skip policy does not exclude, and raises (the    *)
(* aggregate error) only when there is none left; a successful response is  *)
(* taken whatever failed before it, and the call returns once its body is   *)
(* parsed.                                                                  *)
C7_Candidates(rec, after, keys) ==
    {j \in (after + 1)..(Len(keys) - 1) :
        Len(keys) = 1 \/ ~Excluded(keys[RotationIndex(rec, j, Len(keys)) + 1], rec.cost)}

C7_FailoverToNextCandidate ==
    [][\A c \in Calls :
        LET rec == calls'[c]
            later == C7_Candidates(rec, calls[c].i, apiKeys')
        IN  /\ (Receives(c) /\ (ExhaustionSignal(rec.got) \/ rec.got.transport)) =>
                  IF later # {}
                  THEN /\ Issues(c)
                       /\ \A j \in later : rec.i <= j
                       /\ rec.i \in later
                       /\ rec.keyIndex = RotationIndex(rec, rec.i, Len(apiKeys'))
                  ELSE Raises(c) /\ rec.result.kind = "aggregate"
            /\ (Receives(c) /\ rec.got.ok) => rec.pc = "parsing"
            /\ (calls[c].pc = "parsing" /\ rec.body = "parsed") => Returns(c)]_vars

\* a call has returned with its second attempt after the first one failed
\* with an exhaustion signal or in transport
C7_Witness ==
    \E c \in Calls :
        /\ calls[c].pc = "returned"
        /\ Len(calls[c].attempts) = 2
        /\ calls[c].lastError \in
              {"Failed to fetch", "quota exceeded", "daily limit exceeded",
               StatusMessage(403), StatusMessage(429)}

----------------------------------------------------------------------------
(* C8 (as claimed): whenever a call raises the aggregate error, every       *)
(* credential of the pool was attempted, none succeeded, and the message is *)
(* that of the last failed attempt.                                         *)
C8_AggregateAfterAllKeys ==
    [][\A c \in Calls :
        LET rec == calls'[c] IN
        (Raises(c) /\ rec.result.kind = "aggregate") =>
            /\ \A k \in 0..(Len(apiKeys') - 1) : k \in Attempted(rec)
            /\ rec.body # "parsed"
            /\ rec.result.message = LastFailureMessage(rec)]_vars

(* C8 (amended): whenever a call raises the aggregate error, no attempt of  *)
(* it returned a result; if the pool was not replaced during the call,      *)
(* every credential was attempted or is excluded by the skip policy; the    *)
(* message is that of the last failed attempt, or "Check connection." when  *)
(* no credential was attempted.                                             *)
C8_AggregateAfterEligibleKeys ==
    [][\A c \in Calls :
        LET rec == calls'[c] IN
        (Raises(c) /\ rec.result.kind = "aggregate") =>
            /\ ~rec.replaced =>
                  \A k \in 0..(Len(apiKeys') - 1) :
                      \/ k \in Attempted(rec)
                      \/ Len(apiKeys') > 1 /\ Excluded(apiKeys'[k + 1], rec.cost)
            /\ rec.body # "parsed"
            /\ rec.result.message =
                  IF rec.attempts = <<>> THEN "Check connection." ELSE LastFailureMessage(rec)]_vars

\* a call has raised the aggregate error on a pool of two after one attempt
C8_Witness ==
    \E c \in Calls :
        /\ calls[c].pc = "raised" /\ calls[c].result.kind = "aggregate"
        /\ ~calls[c].replaced
        /\ Len(apiKeys) = 2
        /\ Len(calls[c].attempts) = 1
        /\ calls[c].result.message = calls[c].lastError

----------------------------------------------------------------------------
(* C9 (as claimed): a call that raises, the pool not replaced meanwhile,    *)
(* leaves the dailyUsage of every credential, the session total and the     *)
(* cursor as they were when it started.                                     *)
C9_RaiseLeavesNoTrace ==
    [][\A c \in Calls :
        LET rec == calls'[c] IN
        (Raises(c) /\ ~rec.replaced) =>
            /\ sessionQuotaUsed' = rec.before.session
            /\ currentKeyIndex' = rec.before.cursor
            /\ [x \in 1..Len(apiKeys') |-> apiKeys'[x].dailyUsage] = rec.before.usage]_vars

----------------------------------------------------------------------------
(* C10 (as claimed): the cursor is always a valid index of the pool, and 0  *)
(* when the pool is empty.                                                  *)
C10_CursorInBounds ==
    IF Len(apiKeys) = 0 THEN currentKeyIndex = 0
    ELSE 0 <= currentKeyIndex /\ currentKeyIndex < Len(apiKeys)

----------------------------------------------------------------------------
\* the step is a call of setApiKeys
SetsKeys == ops' = ops + 1 /\ \A c \in Calls : calls'[c].id = calls[c].id

\* the dailyUsage accumulated in the pool for value v, 0 for a value that is
\* not in the pool
PriorUsage(keys, v) ==
    IF \E y \in 1..Len(keys) : keys[y].value = v
    THEN OrZero(keys[CHOOSE y \in 1..Len(keys) : keys[y].value = v].dailyUsage)
    ELSE 0

----------------------------------------------------------------------------
(* C14: a call that starts on an empty pool raises the configuration error  *)
(* in that same step, issues no request, and leaves the pool, the cursor,   *)
(* the session total and what every observer has seen unchanged.            *)
C14_EmptyPoolRaisesConfigError ==
    [][\A c \in Calls :
        (Starts(c) /\ Len(apiKeys) = 0) =>
            /\ Raises(c)
            /\ calls'[c].result.kind = "config"
            /\ calls'[c].attempts = <<>>
            /\ UNCHANGED <<apiKeys, currentKeyIndex, sessionQuotaUsed, quotaSeen>>]_vars

\* a call has raised the configuration error on the empty pool
C14_Witness ==
    \E c \in Calls :
        /\ calls[c].pc = "raised" /\ calls[c].result.kind = "config"
        /\ calls[c].attempts = <<>>
        /\ Len(apiKeys) = 0

----------------------------------------------------------------------------
\* the cost of call c if it returned with the credential at index k, else 0
WonOn(c, k) ==
    IF calls[c].pc = "returned" /\ calls[c].attempts[Len(calls[c].attempts)].idx = k
    THEN calls[c].cost ELSE 0

\* the cost of call c if it returned, else 0
Won(c) == IF calls[c].pc = "returned" THEN calls[c].cost ELSE 0

(* C12: once all the calls started on an unchanged pool have finished, the  *)
(* session total is the sum of the costs of the calls that returned, and    *)
(* the dailyUsage of each credential is its initial value plus the costs of *)
(* the calls that returned with it.                                         *)
C12_UsageIsSumOfSucceededCalls ==
    (/\ ops > 0
     /\ \A c \in Calls : ~InFlight(c)
     /\ ops = Cardinality({c \in Calls : calls[c].pc # "idle"}))
    => LET first == CHOOSE c \in Calls : calls[c].id = 1 IN
       /\ sessionQuotaUsed = calls[first].before.session + Won(1) + Won(2)
       /\ \A x \in 1..Len(apiKeys) :
             apiKeys[x].dailyUsage =
                calls[first].before.usage[x] + WonOn(1, x - 1) + WonOn(2, x - 1)

----------------------------------------------------------------------------
\* the step runs updateKeyUsage to its end, or setApiKeys
Delivers == sessionQuotaUsed' # sessionQuotaUsed \/ SetsKeys

(* C13: a step of updateKeyUsage or setApiKeys hands the registered         *)
(* observer the pair of the session total and the sum of dailyUsage over    *)
(* the pool as they are after the step, and hands nothing to any other      *)
(* observer; a pair read with getInitialQuota is that pair as well.         *)
C13_ObserverSeesCurrentTotals ==
    [][\A o \in Observers :
        LET now == [session |-> sessionQuotaUsed', daily |-> SumUsage(apiKeys')] IN
        /\ (Delivers /\ o = onQuotaChangeCallback) => quotaSeen'[o] = now
        /\ (Delivers /\ o # onQuotaChangeCallback) => quotaSeen'[o] = quotaSeen[o]
        /\ quotaSeen'[o] # quotaSeen[o] => quotaSeen'[o] = now]_vars

\* two observers have registered in turn; the first keeps the pair it was
\* last handed, the second has been handed a later one
C13_Witness ==
    /\ onQuotaChangeCallback = 2
    /\ quotaSeen[1] # NoPair
    /\ quotaSeen[2].session > quotaSeen[1].session
    /\ quotaSeen[2].daily > quotaSeen[1].daily
    /\ \E x \in 1..Len(apiKeys) : apiKeys[x].status # "valid" /\ apiKeys[x].dailyUsage > 0

----------------------------------------------------------------------------
\* the key string has a character that trim() keeps
HasVisibleChar(key) == \E x \in 1..Len(key) : key[x] \notin Whitespace

RECURSIVE RequestsInFlight(_)
\* the number of probes in flight, among those of the values in S, that
\* have a request on the network
RequestsInFlight(S) ==
    IF S = {} THEN 0
    ELSE LET v == CHOOSE v \in S : TRUE IN
         (IF HasVisibleChar(v) THEN probes[v] ELSE 0) + RequestsInFlight(S \ {v})

(* C15: at any moment at most one validation probe is in flight.            *)
C15_AtMostOneProbe == RequestsInFlight(ProbeKeys) <= 1

----------------------------------------------------------------------------
(* C16: no two validation probes for the same key value are in flight at    *)
(* the same time.                                                           *)
C16_NoDuplicateProbe == \A v \in ProbeKeys : probes[v] <= 1

\* a key was put back to unknown while its probe is running, and the
\* effects have run since without starting a second probe for it
C16_Witness ==
    \E x \in 1..Len(appKeys) :
        /\ appKeys[x].status = "unknown"
        /\ HasVisibleChar(appKeys[x].value)
        /\ probes[appKeys[x].value] = 1
        /\ appKeys[x].value \in validatingKeys
        /\ ~effectDue

----------------------------------------------------------------------------
(* C17: a call of validateYouTubeApiKey that issues its request returns     *)
(* valid for an ok response, quota_exceeded for a non-ok response whose     *)
(* reason is quotaExceeded or dailyLimitExceeded, invalid for every other   *)
(* non-ok response, and invalid with the message of the exception when the  *)
(* request or the reading of the error body fails; every call returns one   *)
(* of these three statuses.                                                 *)
C17_ValidationVerdict ==
    probe.pc = "returned" =>
        LET r == probe.response.resp
            readable == probe.response.readable
            verdict == probe.result
        IN  /\ verdict.status \in {"valid", "invalid", "quota_exceeded"}
            /\ probe.requested =>
                  /\ r.transport => verdict = [status |-> "invalid", error |-> r.message]
                  /\ (~r.transport /\ r.ok) => verdict.status = "valid"
                  /\ (~r.transport /\ ~r.ok /\ ~readable) =>
                        verdict = [status |-> "invalid", error |-> ParseError]
                  /\ (~r.transport /\ ~r.ok /\ readable) =>
                        verdict.status =
                            IF r.reason \in {"quotaExceeded", "dailyLimitExceeded"}
                            THEN "quota_exceeded" ELSE "invalid"

\* a call whose request got a 403 has returned invalid
C17_Witness ==
    /\ probe.pc = "returned" /\ probe.requested
    /\ probe.response.resp.status = 403
    /\ probe.result.status = "invalid"

----------------------------------------------------------------------------
(* C18: a call of validateYouTubeApiKey with an empty or whitespace-only    *)
(* key returns invalid with a non-empty error message and issues no         *)
(* request.                                                                 *)
C18_BlankKeyIsInvalid ==
    (probe.pc = "returned" /\ ~HasVisibleChar(probe.key)) =>
        /\ ~probe.requested
        /\ probe.result.status = "invalid"
        /\ probe.result.error \notin {"", NoErrorField}

\* a call with a key of whitespace only has returned invalid
C18_Witness ==
    /\ probe.pc = "returned"
    /\ Len(probe.key) = 2 /\ ~HasVisibleChar(probe.key)
    /\ ~probe.requested
    /\ probe.result = [status |-> "invalid", error |-> "Key cannot be empty."]

----------------------------------------------------------------------------
(* C19: getChannelStats never raises, and whenever its channel-metadata     *)
(* call raised or returned no items it returns the placeholder: status      *)
(* terminated, subscriberCount, videoCount and viewCount all "0".           *)
C19_FailureGivesPlaceholder ==
    task.op = "stats" =>
        /\ task.pc # "raised"
        /\ (task.pc = "done" /\ task.metadata \in {"raise", "absent", "empty"}) =>
              /\ task.result.status = "terminated"
              /\ task.result.subscriberCount = "0"
              /\ task.result.videoCount = "0"
              /\ task.result.viewCount = "0"

\* a call whose username lookup and search both failed has returned the
\* placeholder after its metadata call raised
C19_Witness ==
    /\ task.op = "stats" /\ task.pc = "done"
    /\ Len(task.requests) = 3
    /\ task.metadata = "raise"
    /\ task.result.status = "terminated"

----------------------------------------------------------------------------
RECURSIVE ItemsOfChunks(_)
\* the entries built from the items of the chunks, in chunk order
ItemsOfChunks(chunks) ==
    IF chunks = <<>> THEN <<>>
    ELSE (IF Head(chunks).failed THEN <<>>
          ELSE [x \in 1..Len(Head(chunks).items) |-> [id |-> Head(chunks).items[x], status |-> "active"]])
         \o ItemsOfChunks(Tail(chunks))

(* C20: getChannelStatsBatch never raises; when it returns for n IDs it has *)
(* issued ceil(n / 50) Router calls, the j-th for the IDs 50(j-1)+1 to      *)
(* min(50j, n) of the input in input order, and its result is the           *)
(* concatenation in chunk order of the items of the chunks whose call did   *)
(* not fail.                                                                *)
C20_BatchChunks ==
    task.op = "batch" =>
        /\ task.pc # "raised"
        /\ task.pc = "done" =>
              LET n == Len(task.ids) IN
              /\ Len(task.requests) = (n + 49) \div 50
              /\ \A j \in 1..Len(task.requests) :
                    /\ task.requests[j].endpoint = "channels"
                    /\ task.requests[j].arg =
                          [x \in 1..(IF 50 * j < n THEN 50 ELSE n - 50 * (j - 1)) |->
                              task.ids[50 * (j - 1) + x]]
              /\ task.results = ItemsOfChunks(task.chunks)

\* 120 IDs were fetched in three chunks, of which the second failed: the
\* result has the 50 items of the first and the 20 of the third
C20_Witness ==
    /\ task.op = "batch" /\ task.pc = "done"
    /\ Len(task.ids) = 120
    /\ Len(task.requests) = 3
    /\ Len(task.requests[3].arg) = 20
    /\ task.chunks[2].failed
    /\ Len(task.results) = 70
    /\ task.results[50].id = 50 /\ task.results[51].id = 101

----------------------------------------------------------------------------
\* the IDs of the videos of a page
VideoIdsOf(videos) == [x \in 1..Len(videos) |-> videos[x].id]

(* C21: when both calls of getChannelVideos succeed, the videos returned    *)
(* are the entries of the playlist page whose video ID is among the items   *)
(* of the statistics response, every one of them, in the order of the page. *)
C21_PageOrderKept ==
    (task.op = "videos" /\ task.pc = "done" /\ task.statistics.outcome = "items") =>
        LET inResponse(id) == \E y \in 1..Len(task.statistics.items) : task.statistics.items[y] = id
        IN  VideoIdsOf(task.page.videos) = SelectSeq(task.playlist.items, inResponse)

\* a page of three entries whose statistics came back in another order and
\* without the middle entry
C21_Witness ==
    /\ task.op = "videos" /\ task.pc = "done"
    /\ Len(task.playlist.items) = 3
    /\ task.statistics.outcome = "items"
    /\ Len(task.statistics.items) = 2
    /\ task.statistics.items[1] = task.playlist.items[3]
    /\ task.statistics.items[2] = task.playlist.items[1]
    /\ task.playlist.items[1] # task.playlist.items[3]
    /\ Len(task.page.videos) = 2

----------------------------------------------------------------------------
(* C22: getChannelVideos never raises, and when its playlist call or its    *)
(* statistics call fails it returns no video and no continuation token.     *)
C22_FailureGivesEmptyPage ==
    task.op = "videos" =>
        /\ task.pc # "raised"
        /\ (task.pc = "done" /\ (task.playlist.outcome = "raise"
                                 \/ task.statistics.outcome \in {"raise", "absent"})) =>
              /\ task.page.videos = <<>>
              /\ task.page.nextPageToken = "undefined"

\* the statistics call raised after a playlist page that carried a token
C22_Witness ==
    /\ task.op = "videos" /\ task.pc = "done"
    /\ task.playlist.outcome = "items" /\ task.playlist.nextPageToken = "T"
    /\ task.statistics.outcome = "raise"
    /\ task.page = VideoPage(<<>>, "undefined")

----------------------------------------------------------------------------
(* C23: resolveChannelId never raises; an identifier that starts with "UC"  *)
(* is returned as it is with no Router call; for any other identifier the   *)
(* username lookup comes first, the keyword search is issued only when that *)
(* lookup raised or gave no item, and the identifier is returned as it is   *)
(* when the search raised or gave no item as well.                          *)
C23_ResolveFallbackOrder ==
    task.op = "stats" =>
        LET id == task.identifier
            canonical == Len(id) >= 2 /\ id[1] = "U" /\ id[2] = "C"
            resolved == task.pc \notin {"username", "search"}
        IN  /\ task.pc # "raised"
            /\ canonical => /\ task.lookups = <<>>
                            /\ task.resolvedId = id
            /\ ~canonical =>
                  /\ task.requests[1] = [endpoint |-> "channels", arg |-> id]
                  /\ task.pc = "username" <=> task.lookups = <<>>
                  /\ Len(task.lookups) >= 2 =>
                        /\ Len(task.lookups) = 2
                        /\ task.lookups[1] # "items"
                        /\ task.requests[2] = [endpoint |-> "search", arg |-> id]
                  /\ task.pc = "search" => Len(task.lookups) = 1 /\ task.lookups[1] # "items"
                  /\ (resolved /\ task.lookups[1] = "items") =>
                        /\ Len(task.lookups) = 1
                        /\ task.resolvedId = FoundByUsername
                  /\ (resolved /\ task.lookups[1] # "items") =>
                        /\ Len(task.lookups) = 2
                        /\ task.resolvedId = IF task.lookups[2] = "items" THEN FoundBySearch ELSE id
            /\ task.pc = "metadata" => Len(task.requests) = Len(task.lookups) + 1

\* the username lookup raised and the search found nothing: the metadata
\* call is made with the identifier as it was given
C23_Witness ==
    /\ task.op = "stats" /\ task.pc = "metadata"
    /\ task.identifier = <<"n", "a", "m", "e">>
    /\ task.lookups = <<"raise", "empty">>
    /\ task.resolvedId = task.identifier
    /\ Len(task.requests) = 3

----------------------------------------------------------------------------
(* C26: once the channel-metadata call of getChannelStats has given a       *)
(* channel, the call never raises and returns status active; newestVideo    *)
(* is null exactly when one of the two calls of the newest-video sub-fetch  *)
(* raised or gave no item, oldestVideo exactly when the call of the         *)
(* oldest-video sub-fetch did; and the statistics call of the newest-video  *)
(* sub-fetch is issued only after its playlist call gave an entry.          *)
C26_SubFetchFailuresTolerated ==
    (task.op = "stats" /\ task.metadata = "items") =>
        /\ task.pc # "raised"
        /\ (\E j \in 1..Len(task.requests) : task.requests[j].endpoint = "videos")
              => (task.newest.gave # <<>> /\ task.newest.gave[1] = "items")
        /\ task.pc = "done" =>
              /\ task.result.status = "active"
              /\ task.result.newestVideo =
                    IF task.newest.gave = <<"items", "items">> THEN "newest" ELSE "null"
              /\ task.result.oldestVideo =
                    IF task.oldest.gave = <<"items">> THEN "oldest" ELSE "null"

\* the oldest-video search raised and the newest-video playlist was empty
\* while the other sub-fetch was still running: the channel is active with
\* both videos null
C26_Witness ==
    /\ task.op = "stats" /\ task.pc = "done"
    /\ task.metadata = "items"
    /\ task.oldest.gave = <<"raise">>
    /\ task.newest.gave = <<"empty">>
    /\ task.result.status = "active"
    /\ task.result.newestVideo = "null" /\ task.result.oldestVideo = "null"

----------------------------------------------------------------------------
\* the step settles a write to the remote store
Settles == \E x \in 1..Len(writes) : writes'[x].state # writes[x].state

(* C25: a step in which a write to the remote store settles, stored or      *)
(* failed, changes neither a dailyUsage nor the session total, and leaves   *)
(* every activation of fetchYouTubeAPI where it was, with the result it     *)
(* had; an activation returns without its write having settled.             *)
C25_WriteFailureIsHarmless ==
    [][Settles => /\ apiKeys' = apiKeys
                  /\ sessionQuotaUsed' = sessionQuotaUsed
                  /\ quotaSeen' = quotaSeen
                  /\ calls' = calls]_vars

\* the write of the first call was rejected; the second call has returned
\* while its own write is still pending; the counters hold both charges
C25_Witness ==
    /\ Len(writes) = 2
    /\ writes[1].state = "rejected" /\ writes[2].state = "pending"
    /\ calls[1].id = writes[2].call /\ calls[1].pc = "returned"
    /\ sessionQuotaUsed = writes[1].cost + writes[2].cost
    /\ \E y \in 1..Len(apiKeys) :
          apiKeys[y].value = writes[2].value /\ apiKeys[y].dailyUsage = writes[2].usage

----------------------------------------------------------------------------
(* C27: in a pool of more than one credential whose dailyUsage values all   *)
(* start at or below 10,000, no credential's dailyUsage ever goes above     *)
(* 10,000.                                                                  *)
C27_UsageWithinCap ==
    Len(apiKeys) > 1 => \A x \in 1..Len(apiKeys) : OrZero(apiKeys[x].dailyUsage) <= 10000

----------------------------------------------------------------------------
\* the step is the one in which call c receives a successful response
Succeeds(c) == calls[c].pc = "fetching" /\ calls'[c].pc = "parsing"

(* C28: when a request succeeds, its cost is added to the dailyUsage of the *)
(* credential whose value was sent with it, wherever that credential is in  *)
(* the pool by then, and the dailyUsage of no other credential changes.     *)
C28_ChargeFollowsValue ==
    [][\A c \in Calls : Succeeds(c) =>
          LET sent == calls[c].attempts[Len(calls[c].attempts)].sent IN
          \A y \in 1..Len(apiKeys) :
              apiKeys'[y].dailyUsage =
                  IF apiKeys[y].value = sent
                  THEN apiKeys[y].dailyUsage + calls[c].cost
                  ELSE apiKeys[y].dailyUsage]_vars

----------------------------------------------------------------------------
(* C29: a step of fetchYouTubeAPI leaves the pool as long as it was, every  *)
(* credential at its position with its value and its status, and changes a  *)
(* dailyUsage only in the step in which a request succeeds, and then only   *)
(* that of the credential whose value was sent with the request.            *)
C29_FetchOnlyChargesWinner ==
    [][~SetsKeys =>
          /\ Len(apiKeys') = Len(apiKeys)
          /\ \A y \in 1..Len(apiKeys) :
                /\ apiKeys'[y].value = apiKeys[y].value
                /\ apiKeys'[y].status = apiKeys[y].status
                /\ apiKeys'[y].dailyUsage # apiKeys[y].dailyUsage =>
                      \E c \in Calls :
                          /\ Succeeds(c)
                          /\ calls[c].attempts[Len(calls[c].attempts)].sent = apiKeys[y].value]_vars

----------------------------------------------------------------------------
(* C24: once the effects of a save have run, a request of fetchYouTubeAPI   *)
(* is sent only with a credential of the saved list, and a call made when   *)
(* the saved list is empty raises the configuration error.                  *)
C24_RemovedKeyLeavesPool ==
    [][\A c \in Calls :
          ~effectDue =>
             /\ Issues(c) =>
                   \E x \in 1..Len(appKeys) :
                       appKeys[x].value = calls'[c].attempts[Len(calls'[c].attempts)].sent
             /\ (Starts(c) /\ appKeys = <<>>) =>
                   (calls'[c].pc = "raised" /\ calls'[c].result = ConfigError)]_vars

----------------------------------------------------------------------------
\* the key of value v is in the list of the application with a status in S
HasStatus(v, S) == \E x \in 1..Len(appKeys) : appKeys[x].value = v /\ appKeys[x].status \in S

(* C30: when the effects are run and every probe completes, a credential    *)
(* that is in the list with status unknown or checking eventually has one   *)
(* of the statuses valid, invalid and quota_exceeded, or has left the list. *)
C30_EveryKeyGetsVerdict ==
    \A v \in ProbeKeys :
        HasStatus(v, {"unknown", "checking"})
            ~> (HasStatus(v, {"valid", "invalid", "quota_exceeded"}) \/ ~HasStatus(v, KeyStatus))

\* after the last user action, a list of two keys has its verdicts, one of
\* them valid, with no probe in flight and no effect due
C30_Witness ==
    /\ ops = MaxUserActions
    /\ Len(appKeys) >= 2
    /\ \A x \in 1..Len(appKeys) : appKeys[x].status \in {"valid", "invalid", "quota_exceeded"}
    /\ \E x \in 1..Len(appKeys) : appKeys[x].status = "valid"
    /\ \A v \in ProbeKeys : probes[v] = 0
    /\ validatingKeys = {}
    /\ ~effectDue

====
